---- MODULE Spec2Model ----
(***************************************************************************)
(* Model of the documentation generator's React front end                  *)
(* (frontend/docapp/src: App.jsx, components/*.jsx, services/api.js) and   *)
(* of the repository pipeline of the backend as the specification          *)
(* describes it.                                                           *)
(*                                                                         *)
(* Text is modelled by TLA+ strings; a character of a string s is          *)
(* SubSeq(s, i, i).  JavaScript null is the record Null, a string value is *)
(* StrVal(s) and a File object is FileVal(name).                           *)
(***************************************************************************)
EXTENDS Integers, Sequences, FiniteSets, Bags, TLC

VARIABLES
    documentation,      \* App: useState('')
    activeTab,          \* App: useState('code')
    error,              \* App: useState('')
    currentCode,        \* App: useState(null)
    currentGitHubData,  \* App: useState(null)
    codeInput,          \* CodeInput: [code, isProcessing]
    fileUpload,         \* FileUpload: [file, isProcessing]
    gitHubInput,        \* GitHubInput: [githubUrl, maxFiles, isLoading, loadingStep]
    isDownloading,      \* DocumentationDisplay: useState(false)
    calls,              \* the bag of handler invocations suspended at an await
    saved,              \* the file the last step offered to the user, if it offered one
    alerted,            \* the text the last step showed with window.alert, if it did
    received,           \* the outcome of the request the last step settled, if it settled one
    fn,                 \* one evaluation of a pure function: its input and its result
    pipe                \* one run of the backend's repository pipeline

appVars == <<documentation, activeTab, error, currentCode, currentGitHubData,
             codeInput, fileUpload, gitHubInput, isDownloading, calls, saved, alerted, received>>

vars == <<documentation, activeTab, error, currentCode, currentGitHubData,
          codeInput, fileUpload, gitHubInput, isDownloading, calls, saved, alerted,
          received, fn, pipe>>

----------------------------------------------------------------------------
(* JavaScript values *)

Null == [t |-> "null"]

StrVal(s) == [t |-> "string", v |-> s]

FileVal(name) == [t |-> "File", name |-> name]

----------------------------------------------------------------------------
(* Strings *)

CharAt(s, i) == SubSeq(s, i, i)

\* lit occurs in s at position i
OccursAt(s, lit, i) ==
    /\ i >= 1
    /\ i + Len(lit) - 1 <= Len(s)
    /\ SubSeq(s, i, i + Len(lit) - 1) = lit

Whitespace == {" ", "\t", "\n"}

\* String.prototype.trim
Trim(s) ==
    LET keep == {i \in 1..Len(s) : CharAt(s, i) \notin Whitespace}
    IN  IF keep = {} THEN ""
        ELSE LET lo == CHOOSE i \in keep : \A j \in keep : i <= j
                 hi == CHOOSE i \in keep : \A j \in keep : j <= i
             IN  SubSeq(s, lo, hi)

\* the end (exclusive) of the longest run of characters other than "/" that
\* starts at position j: what the greedy [^/]+ consumes
RunEnd(s, j) ==
    CHOOSE k \in j..(Len(s) + 1) :
        /\ \A m \in j..(k - 1) : CharAt(s, m) # "/"
        /\ k = Len(s) + 1 \/ CharAt(s, k) = "/"

----------------------------------------------------------------------------
(* Numbers: parseInt and the timestamp's digits *)

Digits == <<"0", "1", "2", "3", "4", "5", "6", "7", "8", "9">>

IsDigit(c) == \E d \in 1..10 : Digits[d] = c

DigitValue(c) == (CHOOSE d \in 1..10 : Digits[d] = c) - 1

NaN == [t |-> "NaN"]

Num(n) == [t |-> "number", v |-> n]

\* the value of a string of decimal digits
RECURSIVE DecimalValue(_)
DecimalValue(ds) ==
    IF ds = "" THEN 0
    ELSE 10 * DecimalValue(SubSeq(ds, 1, Len(ds) - 1)) + DigitValue(CharAt(ds, Len(ds)))

\* parseInt(text) with no radix, for text without a hexadecimal prefix: leading
\* white space is skipped, one sign is read, then the longest run of decimal
\* digits; what follows it is ignored; no digit at all gives NaN
ParseInt(text) ==
    LET nonWs  == {i \in 1..Len(text) : CharAt(text, i) \notin Whitespace}
        start  == IF nonWs = {} THEN Len(text) + 1
                  ELSE CHOOSE i \in nonWs : \A j \in nonWs : i <= j
        signed == start <= Len(text) /\ CharAt(text, start) \in {"-", "+"}
        first  == IF signed THEN start + 1 ELSE start
        stop   == CHOOSE k \in first..(Len(text) + 1) :
                      /\ \A m \in first..(k - 1) : IsDigit(CharAt(text, m))
                      /\ k = Len(text) + 1 \/ ~IsDigit(CharAt(text, k))
        mag    == DecimalValue(SubSeq(text, first, stop - 1))
    IN  IF stop = first THEN NaN
        ELSE IF signed /\ CharAt(text, start) = "-" THEN Num(0 - mag)
        ELSE Num(mag)

\* two decimal digits, and n decimal digits, zero padded
Pad2(n) == Digits[((n \div 10) % 10) + 1] \o Digits[(n % 10) + 1]

Pad3(n) == Digits[((n \div 100) % 10) + 1] \o Pad2(n % 100)

Pad4(n) == Pad2(n \div 100) \o Pad2(n % 100)

----------------------------------------------------------------------------
(* The owner/repo extraction: githubUrl.match(/github\.com\/([^/]+)\/([^/]+)/) *)

GitHubLiteral == "github.com/"

\* the pattern matches with its first character at position i: the literal,
\* then a non-empty run without "/", then "/", then a non-empty run without "/"
RepoMatchAt(s, i) ==
    /\ OccursAt(s, GitHubLiteral, i)
    /\ LET o  == i + Len(GitHubLiteral)
           oe == RunEnd(s, o)
       IN  /\ oe > o
           /\ oe <= Len(s)
           /\ oe + 1 <= Len(s)
           /\ RunEnd(s, oe + 1) > oe + 1

\* the match object (its two groups) of the leftmost match, or null
RepoMatch(s) ==
    LET at == {i \in 1..Len(s) : RepoMatchAt(s, i)}
    IN  IF at = {} THEN Null
        ELSE LET i  == CHOOSE k \in at : \A j \in at : k <= j
                 o  == i + Len(GitHubLiteral)
                 oe == RunEnd(s, o)
             IN  [t |-> "match",
                  owner |-> SubSeq(s, o, oe - 1),
                  repo  |-> SubSeq(s, oe + 1, RunEnd(s, oe + 1) - 1)]

\* const repoName = repoMatch ? `${repoMatch[1]}_${repoMatch[2]}` : 'github_repo'
RepoName(githubUrl) ==
    LET repoMatch == RepoMatch(githubUrl)
    IN  IF repoMatch # Null THEN repoMatch.owner \o "_" \o repoMatch.repo
        ELSE "github_repo"

\* filenamePrefix = `github_docs_${repoName}`
GitHubFilenamePrefix(githubUrl) == "github_docs_" \o RepoName(githubUrl)

\* the arguments downloadGitHubDocumentation passes to downloadDocumentationUniversal
downloadGitHubDocumentation(markdownContent, githubUrl) ==
    [markdownContent |-> markdownContent,
     filenamePrefix  |-> "github_docs_" \o RepoName(githubUrl),
     sourceType      |-> "github"]

(* Repository URLs, by their parts: scheme, host, the path segments (each
   preceded by "/") and what follows the path. *)
Schemes == {"", "https://"}

Hosts == {"github.com", "gitlab.com", "githubXcom"}

SegNames == {"", "o", "r2"}

Queries == {"", "?q=1", "#top"}

MaxSegs == 3

SegSeqs == UNION {[1..n -> SegNames] : n \in 0..MaxSegs}

RepoUrls == [scheme : Schemes, host : Hosts, segs : SegSeqs, query : Queries]

RECURSIVE PathText(_)
PathText(segs) ==
    IF segs = <<>> THEN "" ELSE "/" \o Head(segs) \o PathText(Tail(segs))

UrlText(u) == u.scheme \o u.host \o PathText(u.segs) \o u.query

\* https://github.com/<owner>/<repo> followed by any suffix
WellFormed(u) ==
    /\ u.host = "github.com"
    /\ Len(u.segs) >= 2
    /\ u.segs[1] # ""
    /\ u.segs[2] # ""

----------------------------------------------------------------------------
(* One evaluation of the extraction on one URL *)

AppQuiet ==
    /\ documentation = ""
    /\ activeTab = "code"
    /\ error = ""
    /\ currentCode = Null
    /\ currentGitHubData = Null
    /\ codeInput = [code |-> "", isProcessing |-> FALSE]
    /\ fileUpload = [file |-> Null, isProcessing |-> FALSE]
    /\ gitHubInput = [githubUrl |-> "", maxFiles |-> 10, isLoading |-> FALSE,
                      loadingStep |-> ""]
    /\ isDownloading = FALSE
    /\ calls = EmptyBag
    /\ saved = Null
    /\ alerted = ""
    /\ received = Null

InitLocator ==
    /\ AppQuiet
    /\ pipe = Null
    /\ fn \in {[op |-> "locate", in |-> u, out |-> Null] : u \in RepoUrls}

Locate ==
    /\ fn.op = "locate"
    /\ fn.out = Null
    /\ fn' = [fn EXCEPT !.out =
                [t |-> "located",
                 match  |-> RepoMatch(UrlText(fn.in)),
                 prefix |-> GitHubFilenamePrefix(UrlText(fn.in)),
                 legacy |-> downloadGitHubDocumentation("# M", UrlText(fn.in))]]
    /\ UNCHANGED <<appVars, pipe>>

NextLocator == Locate

SpecLocator == InitLocator /\ [][NextLocator]_vars

\* C1: for every URL https://github.com/<owner>/<repo> followed by any suffix,
\* the extraction yields exactly <owner> and <repo> and the download filename
\* prefix is github_docs_<owner>_<repo>.
C1_ExtractsOwnerRepo ==
    (fn.op = "locate" /\ fn.out # Null /\ WellFormed(fn.in)) =>
        /\ fn.out.match = [t |-> "match", owner |-> fn.in.segs[1], repo |-> fn.in.segs[2]]
        /\ fn.out.prefix = "github_docs_" \o fn.in.segs[1] \o "_" \o fn.in.segs[2]
        /\ fn.out.legacy.filenamePrefix = fn.out.prefix

\* the part of C1 the code satisfies: trailing path segments are ignored
C1_PathSuffixIgnored ==
    (fn.op = "locate" /\ fn.out # Null /\ WellFormed(fn.in)
        /\ (fn.in.query = "" \/ Len(fn.in.segs) > 2)) =>
        /\ fn.out.match = [t |-> "match", owner |-> fn.in.segs[1], repo |-> fn.in.segs[2]]
        /\ fn.out.prefix = "github_docs_" \o fn.in.segs[1] \o "_" \o fn.in.segs[2]

----------------------------------------------------------------------------
(* The name of the downloaded file: downloadDocumentationUniversal *)

\* Date.prototype.toISOString for the years 0..9999: YYYY-MM-DDTHH:mm:ss.sssZ
ToISOString(d) ==
    Pad4(d.year) \o "-" \o Pad2(d.month) \o "-" \o Pad2(d.day) \o "T" \o
    Pad2(d.hour) \o ":" \o Pad2(d.minute) \o ":" \o Pad2(d.second) \o "." \o
    Pad3(d.ms) \o "Z"

\* s.replace(/[-:.]/g, '')
RECURSIVE RemovePunctuation(_)
RemovePunctuation(s) ==
    IF s = "" THEN ""
    ELSE IF CharAt(s, 1) \in {"-", ":", "."} THEN RemovePunctuation(Tail(s))
    ELSE CharAt(s, 1) \o RemovePunctuation(Tail(s))

TimestampLength == 14

\* s.substring(0, n)
Substring0(s, n) == SubSeq(s, 1, IF n < Len(s) THEN n ELSE Len(s))

\* new Date().toISOString().replace(/[-:.]/g, '').substring(0, 14)
Timestamp(now) == Substring0(RemovePunctuation(ToISOString(now)), TimestampLength)

\* `${filenamePrefix}_${...}.md`
DefaultFilename(filenamePrefix, now) ==
    filenamePrefix \o "_" \o Timestamp(now) \o ".md"

FilenameLiteral == "filename=\""

\* contentDisposition.match(/filename="(.+)"/): the group of the leftmost match,
\* or null.  The greedy .+ runs to the last double quote of the header (a header
\* value holds no line terminator, so . matches each of its characters).
FilenameMatch(header) ==
    LET quotes == {q \in 1..Len(header) : CharAt(header, q) = "\""}
        at     == {i \in 1..Len(header) :
                      /\ OccursAt(header, FilenameLiteral, i)
                      /\ \E q \in quotes : q >= i + Len(FilenameLiteral) + 1}
    IN  IF at = {} THEN Null
        ELSE LET i == CHOOSE k \in at : \A j \in at : k <= j
                 q == CHOOSE k \in quotes : \A j \in quotes : j <= k
             IN  StrVal(SubSeq(header, i + Len(FilenameLiteral), q - 1))

\* let filename = default; if (contentDisposition) { match and replace }
\* contentDisposition is headers.get's result: null or a string
DownloadFilename(filenamePrefix, now, contentDisposition) ==
    IF contentDisposition # Null /\ contentDisposition.v # ""
        /\ FilenameMatch(contentDisposition.v) # Null
    THEN FilenameMatch(contentDisposition.v).v
    ELSE DefaultFilename(filenamePrefix, now)

(* Times of day and Content-Disposition headers, by their parts *)
Times ==
    [year : {2026}, month : {1, 11}, day : {1, 31}, hour : {0, 23},
     minute : {5}, second : {7, 59}, ms : {0, 999}]

\* yyyymmddHHMMSS
FourteenDigits(d) ==
    Pad4(d.year) \o Pad2(d.month) \o Pad2(d.day) \o
    Pad2(d.hour) \o Pad2(d.minute) \o Pad2(d.second)

FilenamePrefixes == {"documentation", "code_documentation", "github_docs_o_r2"}

ServerNames == {"a.md", "my docs_20261101165007.md"}

DispositionParts ==
    [pre  : {"", "attachment; "},
     kind : {"quoted", "token", "extended", "none"},
     name : ServerNames,
     post : {"", "; size=5", "; creation-date=\"Sun, 01 Nov 2026\""}]

DispositionText(h) ==
    h.pre \o
    (CASE h.kind = "quoted"   -> "filename=\"" \o h.name \o "\""
       [] h.kind = "token"    -> "filename=" \o h.name
       [] h.kind = "extended" -> "filename*=UTF-8''" \o h.name
       [] h.kind = "none"     -> "inline") \o
    h.post

\* what response.headers.get('content-disposition') gives for the parts h
HeaderValue(h) == IF h = Null THEN Null ELSE StrVal(DispositionText(h))

InitFilename ==
    /\ AppQuiet
    /\ pipe = Null
    /\ fn \in {[op |-> "filename",
                in |-> [prefix |-> p, now |-> d, header |-> h],
                out |-> Null] :
                p \in FilenamePrefixes, d \in Times,
                h \in DispositionParts \cup {Null}}

NameFile ==
    /\ fn.op = "filename"
    /\ fn.out = Null
    /\ fn' = [fn EXCEPT !.out =
                StrVal(DownloadFilename(fn.in.prefix, fn.in.now, HeaderValue(fn.in.header)))]
    /\ UNCHANGED <<appVars, pipe>>

NextFilename == NameFile

SpecFilename == InitFilename /\ [][NextFilename]_vars

\* C3: with no server-provided filename the saved file is named <prefix>_<T>.md
\* where T is the 14 decimal digits yyyymmddHHMMSS of the current time.
C3_FourteenDigitName ==
    (fn.op = "filename" /\ fn.out # Null /\ fn.in.header = Null) =>
        fn.out.v = fn.in.prefix \o "_" \o FourteenDigits(fn.in.now) \o ".md"

\* what the code does name the file: yyyymmdd, the letter T, HHMM and the
\* first digit of the seconds
C3_CodeTimestamp ==
    (fn.op = "filename" /\ fn.out # Null /\ fn.in.header = Null) =>
        fn.out.v = fn.in.prefix \o "_" \o
                   Pad4(fn.in.now.year) \o Pad2(fn.in.now.month) \o Pad2(fn.in.now.day)
                   \o "T" \o Pad2(fn.in.now.hour) \o Pad2(fn.in.now.minute)
                   \o Digits[(fn.in.now.second \div 10) + 1] \o ".md"

\* C4: a Content-Disposition header containing filename="X" names the saved
\* file X; an absent header or one with no quoted filename keeps the generated
\* <prefix>_<timestamp>.md name.
C4_ServerFilenameUsed ==
    (fn.op = "filename" /\ fn.out # Null) =>
        IF fn.in.header # Null /\ fn.in.header.kind = "quoted"
        THEN fn.out.v = fn.in.header.name
        ELSE fn.out.v = DefaultFilename(fn.in.prefix, fn.in.now)

\* the cases of C4 the code satisfies: no double quote after the filename's
C4_LastQuoteCloses ==
    (fn.op = "filename" /\ fn.out # Null
        /\ (fn.in.header = Null \/ fn.in.header.post \in {"", "; size=5"})) =>
        IF fn.in.header # Null /\ fn.in.header.kind = "quoted"
        THEN fn.out.v = fn.in.header.name
        ELSE fn.out.v = DefaultFilename(fn.in.prefix, fn.in.now)

----------------------------------------------------------------------------
(* services/api.js: the requests the client sends and how it reads responses *)

API_BASE_URL == "https://codebase-documentation.onrender.com"

\* fetch(`${API_BASE_URL}/docs/gen`, {method: 'POST', headers, body: JSON.stringify({code, isBase64: false})})
generateDocumentation(code) ==
    [method |-> "POST", url |-> API_BASE_URL \o "/docs/gen",
     contentType |-> "application/json",
     body |-> [code |-> code, isBase64 |-> FALSE]]

\* formData.append('file', file); fetch(`${API_BASE_URL}/docs/from-upload`, {method: 'POST', body: formData})
uploadFileForDocumentation(file) ==
    [method |-> "POST", url |-> API_BASE_URL \o "/docs/from-upload",
     contentType |-> "multipart/form-data",
     body |-> [file |-> file]]

\* the request with the form's own names for the fields
generateGitHubDocumentationCamelCase(githubUrl, maxFiles) ==
    [method |-> "POST", url |-> API_BASE_URL \o "/docs/from-github",
     contentType |-> "application/json",
     body |-> [githubUrl |-> githubUrl, maxFiles |-> maxFiles]]

\* fetch(`${API_BASE_URL}/docs/from-github`, ... {github_url: githubUrl, max_files: maxFiles})
generateGitHubDocumentation(githubUrl, maxFiles) ==
    [method |-> "POST", url |-> API_BASE_URL \o "/docs/from-github",
     contentType |-> "application/json",
     body |-> [github_url |-> githubUrl, max_files |-> maxFiles]]

\* fetch(`${API_BASE_URL}/docs/download`, ... {markdown_content, filename_prefix, source_type})
downloadDocumentationUniversal(markdownContent, filenamePrefix, sourceType) ==
    [method |-> "POST", url |-> API_BASE_URL \o "/docs/download",
     contentType |-> "application/json",
     body |-> [markdown_content |-> markdownContent,
               filename_prefix  |-> filenamePrefix,
               source_type      |-> sourceType]]

(* Responses.  A body is text that is not JSON, or a JSON object whose
   markdown and detail members are a string or missing (null); a download's
   body is a blob.  A request that gets no response rejects fetch's promise. *)
TextBody == [t |-> "text"]

JsonBody(markdown, detail) == [t |-> "json", markdown |-> markdown, detail |-> detail]

BlobBody(content) == [t |-> "blob", content |-> content]

Response(ok, status, statusText, body, disposition) ==
    [t |-> "response", ok |-> ok, status |-> status, statusText |-> statusText,
     body |-> body, contentDisposition |-> disposition]

NetworkFailure == [t |-> "failure", message |-> "Failed to fetch"]

\* const errorData = await response.json().catch(() => null)
ErrorData(response) == IF response.body.t = "json" THEN response.body ELSE Null

\* the message without the server's detail
ErrorMessageStatusOnly(response) ==
    "Server error: " \o ToString(response.status) \o " " \o response.statusText

\* errorData?.detail || `Server error: ${response.status} ${response.statusText}`
ErrorMessage(response) ==
    LET errorData == ErrorData(response)
    IN  IF errorData # Null /\ errorData.detail # Null /\ errorData.detail.v # ""
        THEN errorData.detail.v
        ELSE "Server error: " \o ToString(response.status) \o " " \o response.statusText

\* the message of the Error an api function throws for the outcome r, or null
\* when it returns normally
Thrown(r) ==
    IF r.t = "failure" THEN StrVal(r.message)
    ELSE IF ~r.ok THEN StrVal(ErrorMessage(r))
    ELSE Null

\* const message = err.message || fallback
BannerMessage(thrown, fallback) == IF thrown.v # "" THEN thrown.v ELSE fallback

----------------------------------------------------------------------------
(* The application: App.jsx and its components *)

MaxCalls == 2

\* a handler invocation suspended at an await: what its closure holds (arg),
\* whether the component that started it is still mounted, the request it
\* sent and how many requests it has sent
Call(kind, stage, arg, request, requests) ==
    [kind |-> kind, stage |-> stage, arg |-> arg, mounted |-> TRUE,
     request |-> request, requests |-> requests]

Running == BagToSet(calls)

CanStart == BagCardinality(calls) < MaxCalls

Started(c) == calls (+) SetToBag({c})

Ended(c) == calls (-) SetToBag({c})

Moved(c, d) == (calls (-) SetToBag({c})) (+) SetToBag({d})

\* the calls after the input component was unmounted
Unmounted(c) == IF c.kind = "download" THEN c ELSE [c EXCEPT !.mounted = FALSE]

AfterUnmount ==
    [d \in {Unmounted(c) : c \in Running} |->
        Cardinality({ck \in Running \X (1..MaxCalls) :
                        Unmounted(ck[1]) = d /\ ck[2] <= calls[ck[1]]})]

InitialCodeInput == [code |-> "", isProcessing |-> FALSE]

InitialFileUpload == [file |-> Null, isProcessing |-> FALSE]

InitialGitHubInput ==
    [githubUrl |-> "", maxFiles |-> 10, isLoading |-> FALSE, loadingStep |-> ""]

Tabs == {"code", "file", "github"}

\* a JavaScript value used as a condition
Truthy(v) == v # Null /\ ~(v.t = "string" /\ v.v = "")

AppInit(tab) ==
    /\ documentation = ""
    /\ activeTab = tab
    /\ error = ""
    /\ currentCode = Null
    /\ currentGitHubData = Null
    /\ codeInput = InitialCodeInput
    /\ fileUpload = InitialFileUpload
    /\ gitHubInput = InitialGitHubInput
    /\ isDownloading = FALSE
    /\ calls = EmptyBag
    /\ saved = Null
    /\ alerted = ""
    /\ received = Null

\* a tab change that forgets the stored GitHub data
handleTabChangeKeepingGitHubData(tab) ==
    /\ error' = ""
    /\ documentation' = ""
    /\ currentCode' = Null
    /\ activeTab' = tab
    /\ IF tab = activeTab
       THEN UNCHANGED <<codeInput, fileUpload, gitHubInput, calls>>
       ELSE /\ codeInput' = InitialCodeInput
            /\ fileUpload' = InitialFileUpload
            /\ gitHubInput' = InitialGitHubInput
            /\ calls' = AfterUnmount
    /\ saved' = Null
    /\ alerted' = ""
    /\ received' = Null
    /\ UNCHANGED <<currentGitHubData, isDownloading, fn, pipe>>

\* handleTabChange; the input section renders the component of the active tab,
\* so another tab unmounts the component shown (its state is lost, and the
\* state setters of the calls it started do nothing from then on) and mounts
\* the chosen one in its initial state
handleTabChange(tab) ==
    /\ error' = ""
    /\ documentation' = ""
    /\ currentCode' = Null
    /\ currentGitHubData' = Null
    /\ activeTab' = tab
    /\ IF tab = activeTab
       THEN UNCHANGED <<codeInput, fileUpload, gitHubInput, calls>>
       ELSE /\ codeInput' = InitialCodeInput
            /\ fileUpload' = InitialFileUpload
            /\ gitHubInput' = InitialGitHubInput
            /\ calls' = AfterUnmount
    /\ saved' = Null
    /\ alerted' = ""
    /\ received' = Null
    /\ UNCHANGED <<isDownloading, fn, pipe>>

(* CodeInput *)

\* onChange={(e) => setCode(e.target.value)}
CodeChange(text) ==
    /\ activeTab = "code"
    /\ codeInput' = [codeInput EXCEPT !.code = text]
    /\ saved' = Null
    /\ alerted' = ""
    /\ received' = Null
    /\ UNCHANGED <<documentation, activeTab, error, currentCode, currentGitHubData,
                   fileUpload, gitHubInput, isDownloading, calls, fn, pipe>>

\* CodeInput.handleSubmit up to the fetch of handleCodeSubmit; the button is
\* disabled={isProcessing || !code.trim()}
CodeSubmit ==
    /\ activeTab = "code"
    /\ ~codeInput.isProcessing
    /\ Trim(codeInput.code) # ""
    /\ CanStart
    /\ codeInput' = [codeInput EXCEPT !.isProcessing = TRUE]
    /\ error' = ""
    /\ calls' = Started(
         Call("code", "pending", StrVal(codeInput.code),
               generateDocumentation(codeInput.code), 1))
    /\ saved' = Null
    /\ alerted' = ""
    /\ received' = Null
    /\ UNCHANGED <<documentation, activeTab, currentCode, currentGitHubData,
                   fileUpload, gitHubInput, isDownloading, fn, pipe>>

(* FileUpload *)

\* handleFileChange: if (selectedFile) setFile(selectedFile)
FileChange(name) ==
    /\ activeTab = "file"
    /\ fileUpload' = [fileUpload EXCEPT !.file = FileVal(name)]
    /\ saved' = Null
    /\ alerted' = ""
    /\ received' = Null
    /\ UNCHANGED <<documentation, activeTab, error, currentCode, currentGitHubData,
                   codeInput, gitHubInput, isDownloading, calls, fn, pipe>>

\* FileUpload.handleSubmit up to the fetch of handleFileSubmit; the button is
\* disabled={isProcessing || !file}
FileSubmit ==
    /\ activeTab = "file"
    /\ ~fileUpload.isProcessing
    /\ fileUpload.file # Null
    /\ CanStart
    /\ fileUpload' = [fileUpload EXCEPT !.isProcessing = TRUE]
    /\ error' = ""
    /\ calls' = Started(
         Call("file", "pending", fileUpload.file,
               uploadFileForDocumentation(fileUpload.file), 1))
    /\ saved' = Null
    /\ alerted' = ""
    /\ received' = Null
    /\ UNCHANGED <<documentation, activeTab, currentCode, currentGitHubData,
                   codeInput, gitHubInput, isDownloading, fn, pipe>>

\* .finally of CodeInput.handleSubmit and of FileUpload.handleSubmit
GenerateFinally(c) ==
    /\ codeInput' = IF c.kind = "code" /\ c.mounted
                    THEN [codeInput EXCEPT !.isProcessing = FALSE] ELSE codeInput
    /\ fileUpload' = IF c.kind = "file" /\ c.mounted
                     THEN [file |-> Null, isProcessing |-> FALSE] ELSE fileUpload

\* a failed request is sent again instead of being reported
GenerateSettledRetrying(c, r) ==
    /\ c \in Running
    /\ c.kind \in {"code", "file"}
    /\ c.stage = "pending"
    /\ IF Thrown(r) = Null
       THEN /\ documentation' = r.body.markdown.v
            /\ currentCode' = c.arg
            /\ GenerateFinally(c)
            /\ calls' = Ended(c)
       ELSE /\ calls' = Moved(c, [c EXCEPT !.requests = c.requests + 1])
            /\ UNCHANGED <<documentation, currentCode, codeInput, fileUpload>>
    /\ saved' = Null
    /\ alerted' = ""
    /\ received' = r
    /\ UNCHANGED <<activeTab, error, currentGitHubData, gitHubInput, isDownloading, fn, pipe>>

\* handleCodeSubmit / handleFileSubmit after the await, the request answered r
GenerateSettled(c, r) ==
    /\ c \in Running
    /\ c.kind \in {"code", "file"}
    /\ c.stage = "pending"
    /\ IF Thrown(r) = Null
       THEN /\ documentation' = r.body.markdown.v
            /\ currentCode' = c.arg
            /\ UNCHANGED error
       ELSE /\ error' = BannerMessage(Thrown(r),
                          IF c.kind = "code"
                          THEN "Failed to generate documentation. Please try again."
                          ELSE "Failed to process file. Please try again.")
            /\ UNCHANGED <<documentation, currentCode>>
    /\ GenerateFinally(c)
    /\ calls' = Ended(c)
    /\ saved' = Null
    /\ alerted' = ""
    /\ received' = r
    /\ UNCHANGED <<activeTab, currentGitHubData, gitHubInput, isDownloading,
                   fn, pipe>>

(* GitHubInput *)

\* handleUrlChange; the field is disabled={isLoading}
UrlChange(text) ==
    /\ activeTab = "github"
    /\ ~gitHubInput.isLoading
    /\ gitHubInput' = [gitHubInput EXCEPT !.githubUrl = text]
    /\ saved' = Null
    /\ alerted' = ""
    /\ received' = Null
    /\ UNCHANGED <<documentation, activeTab, error, currentCode, currentGitHubData,
                   codeInput, fileUpload, isDownloading, calls, fn, pipe>>

MinMaxFiles == 1

MaxMaxFiles == 50

\* handleMaxFilesChange without its upper limit
MaxFilesAfterNoUpperLimit(maxFiles, text) ==
    LET value == ParseInt(text)
    IN  IF value # NaN /\ value.v >= MinMaxFiles THEN value.v ELSE maxFiles

\* const value = parseInt(e.target.value); if (value >= 1 && value <= 50) setMaxFiles(value)
\* (a comparison with NaN is false)
MaxFilesAfter(maxFiles, text) ==
    LET value == ParseInt(text)
    IN  IF value # NaN /\ value.v >= MinMaxFiles /\ value.v <= MaxMaxFiles
        THEN value.v
        ELSE maxFiles

\* handleMaxFilesChange; the field is disabled={isLoading}
MaxFilesChange(text) ==
    /\ activeTab = "github"
    /\ ~gitHubInput.isLoading
    /\ gitHubInput' = [gitHubInput EXCEPT !.maxFiles = MaxFilesAfter(gitHubInput.maxFiles, text)]
    /\ saved' = Null
    /\ alerted' = ""
    /\ received' = Null
    /\ UNCHANGED <<documentation, activeTab, error, currentCode, currentGitHubData,
                   codeInput, fileUpload, isDownloading, calls, fn, pipe>>

\* what GitHubInput.handleSubmit does with the URL: "empty" and "invalid" are
\* its two early returns
Validate(githubUrl) ==
    IF Trim(githubUrl) = "" THEN "empty"
    ELSE IF RepoMatch(githubUrl) = Null THEN "invalid"
    ELSE "accepted"

\* GitHubInput.handleSubmit up to its first await; the button is
\* disabled={isLoading || !githubUrl.trim()}
GitHubSubmit ==
    /\ activeTab = "github"
    /\ ~gitHubInput.isLoading
    /\ Trim(gitHubInput.githubUrl) # ""
    /\ CASE Validate(gitHubInput.githubUrl) = "empty" ->
              /\ alerted' = "Please enter a GitHub repository URL"
              /\ UNCHANGED <<gitHubInput, calls>>
         [] Validate(gitHubInput.githubUrl) = "invalid" ->
              /\ alerted' = "Please enter a valid GitHub repository URL"
              /\ UNCHANGED <<gitHubInput, calls>>
         [] OTHER ->
              /\ alerted' = ""
              /\ CanStart
              /\ gitHubInput' = [gitHubInput EXCEPT
                                   !.isLoading = TRUE,
                                   !.loadingStep = "Exploring repository structure..."]
              /\ calls' = Started(
                   Call("github", "exploring",
                         [t |-> "object",
                          githubUrl |-> Trim(gitHubInput.githubUrl),
                          maxFiles  |-> gitHubInput.maxFiles],
                         Null, 0))
    /\ saved' = Null
    /\ received' = Null
    /\ UNCHANGED <<documentation, activeTab, error, currentCode, currentGitHubData,
                   codeInput, fileUpload, isDownloading, fn, pipe>>

\* setLoadingStep(step) by the call c
LoadingStepBy(c, step) ==
    IF c.mounted THEN [gitHubInput EXCEPT !.loadingStep = step] ELSE gitHubInput

\* the 2000 ms timer fires: setLoadingStep('Analyzing files...')
GitHubAnalyze(c) ==
    /\ c \in Running
    /\ c.kind = "github"
    /\ c.stage = "exploring"
    /\ gitHubInput' = LoadingStepBy(c, "Analyzing files...")
    /\ calls' = Moved(c, [c EXCEPT !.stage = "analyzing"])
    /\ saved' = Null
    /\ alerted' = ""
    /\ received' = Null
    /\ UNCHANGED <<documentation, activeTab, error, currentCode, currentGitHubData,
                   codeInput, fileUpload, isDownloading, fn, pipe>>

\* the 2500 ms timer fires: onSubmit(githubUrl.trim(), maxFiles) runs
\* handleGitHubSubmit up to its fetch
GitHubSend(c) ==
    /\ c \in Running
    /\ c.kind = "github"
    /\ c.stage = "analyzing"
    /\ gitHubInput' = LoadingStepBy(c, "Generating comprehensive documentation...")
    /\ error' = ""
    /\ calls' = Moved(c,
         [c EXCEPT !.stage = "pending",
                   !.request = generateGitHubDocumentation(c.arg.githubUrl, c.arg.maxFiles),
                   !.requests = c.requests + 1])
    /\ saved' = Null
    /\ alerted' = ""
    /\ received' = Null
    /\ UNCHANGED <<documentation, activeTab, currentCode, currentGitHubData,
                   codeInput, fileUpload, isDownloading, fn, pipe>>

\* finally { setIsLoading(false); setLoadingStep('') }
GitHubFinally(c) ==
    IF c.mounted THEN [gitHubInput EXCEPT !.isLoading = FALSE, !.loadingStep = ""]
    ELSE gitHubInput

\* a handler that clears the output when its request fails
GitHubSettledClearing(c, r) ==
    /\ c \in Running
    /\ c.kind = "github"
    /\ c.stage = "pending"
    /\ IF Thrown(r) = Null
       THEN /\ documentation' = r.body.markdown.v
            /\ currentGitHubData' = c.arg
            /\ currentCode' = Null
            /\ gitHubInput' = LoadingStepBy(c, "Documentation generated successfully!")
            /\ calls' = Moved(c, [c EXCEPT !.stage = "succeeded"])
            /\ UNCHANGED error
       ELSE /\ error' = BannerMessage(Thrown(r),
                          "Failed to generate GitHub documentation. Please try again.")
            /\ documentation' = ""
            /\ currentGitHubData' = Null
            /\ gitHubInput' = GitHubFinally(c)
            /\ calls' = Ended(c)
            /\ UNCHANGED currentCode
    /\ saved' = Null
    /\ alerted' = ""
    /\ received' = r
    /\ UNCHANGED <<activeTab, codeInput, fileUpload, isDownloading, fn, pipe>>

\* handleGitHubSubmit after the await, the request answered r, and
\* GitHubInput.handleSubmit up to its next await (success) or its end (failure)
GitHubSettled(c, r) ==
    /\ c \in Running
    /\ c.kind = "github"
    /\ c.stage = "pending"
    /\ IF Thrown(r) = Null
       THEN /\ documentation' = r.body.markdown.v
            /\ currentGitHubData' = c.arg
            /\ currentCode' = Null
            /\ gitHubInput' = LoadingStepBy(c, "Documentation generated successfully!")
            /\ calls' = Moved(c, [c EXCEPT !.stage = "succeeded"])
            /\ UNCHANGED error
       ELSE /\ error' = BannerMessage(Thrown(r),
                          "Failed to generate GitHub documentation. Please try again.")
            /\ gitHubInput' = GitHubFinally(c)
            /\ calls' = Ended(c)
            /\ UNCHANGED <<documentation, currentCode, currentGitHubData>>
    /\ saved' = Null
    /\ alerted' = ""
    /\ received' = r
    /\ UNCHANGED <<activeTab, codeInput, fileUpload, isDownloading, fn, pipe>>

\* the 1000 ms timer after a success fires: the finally block
GitHubFinish(c) ==
    /\ c \in Running
    /\ c.kind = "github"
    /\ c.stage = "succeeded"
    /\ gitHubInput' = GitHubFinally(c)
    /\ calls' = Ended(c)
    /\ saved' = Null
    /\ alerted' = ""
    /\ received' = Null
    /\ UNCHANGED <<documentation, activeTab, error, currentCode, currentGitHubData,
                   codeInput, fileUpload, isDownloading, fn, pipe>>

(* DocumentationDisplay and handleDownload *)

\* name.replace(/\.[^/.]+$/, ''): the last "." and what follows it are removed
\* when at least one character follows and none of them is "/"
StripExtension(name) ==
    LET dots == {i \in 1..Len(name) : CharAt(name, i) = "."}
    IN  IF dots = {} THEN name
        ELSE LET i == CHOOSE k \in dots : \A j \in dots : j <= k
             IN  IF i < Len(name) /\ \A m \in (i + 1)..Len(name) : CharAt(name, m) # "/"
                 THEN SubSeq(name, 1, i - 1)
                 ELSE name

\* handleDownload: "Determine source type and filename based on current state"
DownloadSource ==
    IF currentGitHubData # Null
    THEN [sourceType |-> "github",
          filenamePrefix |-> GitHubFilenamePrefix(currentGitHubData.githubUrl)]
    ELSE IF currentCode.t = "File"
    THEN [sourceType |-> "file",
          filenamePrefix |-> "file_docs_" \o StripExtension(currentCode.name)]
    ELSE IF Truthy(currentCode)
    THEN [sourceType |-> "code", filenamePrefix |-> "code_documentation"]
    ELSE [sourceType |-> "code", filenamePrefix |-> "documentation"]

\* the markdown without its surrounding white space
DownloadContentTrimmed == Trim(documentation)

\* the markdown handleDownload passes to downloadDocumentationUniversal
DownloadContent == documentation

\* DocumentationDisplay.handleDownload and App.handleDownload up to the fetch;
\* the button is rendered when markdown is truthy and is disabled={isDownloading}
DownloadClick ==
    /\ documentation # ""
    /\ ~isDownloading
    /\ IF Trim(documentation) = ""
       THEN /\ error' = "No documentation to download. Please generate documentation first."
            /\ UNCHANGED <<isDownloading, calls>>
       ELSE /\ CanStart
            /\ error' = ""
            /\ isDownloading' = TRUE
            /\ calls' = Started(
                 Call("download", "pending", StrVal(documentation),
                       downloadDocumentationUniversal(DownloadContent,
                           DownloadSource.filenamePrefix, DownloadSource.sourceType), 1))
    /\ saved' = Null
    /\ alerted' = ""
    /\ received' = Null
    /\ UNCHANGED <<documentation, activeTab, currentCode, currentGitHubData,
                   codeInput, fileUpload, gitHubInput, fn, pipe>>

\* the file the anchor offers: a.download = filename; a.href = blob URL
SavedFile(c, r, now) ==
    [t |-> "file",
     name |-> DownloadFilename(c.request.body.filename_prefix, now, r.contentDisposition),
     content |-> r.body.content]

\* downloadDocumentationUniversal after the await, the request answered r at
\* the time now, then the .finally of DocumentationDisplay.handleDownload
DownloadSettled(c, r, now) ==
    /\ c \in Running
    /\ c.kind = "download"
    /\ c.stage = "pending"
    /\ IF Thrown(r) = Null
       THEN /\ saved' = SavedFile(c, r, now)
            /\ UNCHANGED error
       ELSE /\ error' = BannerMessage(Thrown(r),
                          "Failed to download documentation. Please try again.")
            /\ saved' = Null
    /\ isDownloading' = FALSE
    /\ calls' = Ended(c)
    /\ alerted' = ""
    /\ received' = r
    /\ UNCHANGED <<documentation, activeTab, currentCode, currentGitHubData,
                   codeInput, fileUpload, gitHubInput, fn, pipe>>

----------------------------------------------------------------------------
(* The server and the user, as far as the client sees them *)

Markdowns == {"# A\n", " "}

ErrorBodies == {TextBody, JsonBody(Null, Null), JsonBody(Null, StrVal("")),
                JsonBody(Null, StrVal("Repository not found"))}

\* the status text is empty over HTTP/2
Failures ==
    {Response(FALSE, 404, "Not Found", b, Null) : b \in ErrorBodies}
        \cup {Response(FALSE, 500, "", TextBody, Null), NetworkFailure}

\* POST /docs/gen, /docs/from-upload, /docs/from-github -> {markdown}
GenerateOutcomes ==
    {Response(TRUE, 200, "OK", JsonBody(StrVal(m), Null), Null) : m \in Markdowns}
        \cup Failures

AppTimes == {d \in Times : d.month = 11 /\ d.day = 1 /\ d.hour = 23 /\ d.second = 7 /\ d.ms = 0}

\* POST /docs/download -> the markdown as a file named <prefix>_<yyyymmddHHMMSS>.md;
\* the client reads the Content-Disposition header only when the server exposes it
ServerDownload(request, now, exposed) ==
    Response(TRUE, 200, "OK", BlobBody(request.body.markdown_content),
             IF exposed
             THEN StrVal("attachment; filename=\"" \o request.body.filename_prefix \o "_"
                         \o FourteenDigits(now) \o ".md\"")
             ELSE Null)

DownloadOutcomes(c) ==
    {ServerDownload(c.request, now, exposed) : now \in AppTimes, exposed \in BOOLEAN}
        \cup Failures

Codes == {"x = 1"}

FileNames == {"main.py"}

AppUrls == {"https://gitlab.com/o/r2", "https://github.com/o/r2"}

AppMaxFilesTexts == {"5", "0"}

Init ==
    /\ AppInit("code")
    /\ fn = Null
    /\ pipe = Null

UserTypes(urls, maxFilesTexts) ==
    \/ \E text \in Codes : CodeChange(text)
    \/ \E name \in FileNames : FileChange(name)
    \/ \E text \in urls : UrlChange(text)
    \/ \E text \in maxFilesTexts : MaxFilesChange(text)

Next ==
    \/ \E tab \in Tabs : handleTabChange(tab)
    \/ UserTypes(AppUrls, AppMaxFilesTexts)
    \/ CodeSubmit
    \/ FileSubmit
    \/ GitHubSubmit
    \/ DownloadClick
    \/ \E c \in Running : GitHubAnalyze(c)
    \/ \E c \in Running : GitHubSend(c)
    \/ \E c \in Running : GitHubFinish(c)
    \/ \E c \in Running : \E r \in GenerateOutcomes : GenerateSettled(c, r)
    \/ \E c \in Running : \E r \in GenerateOutcomes : GitHubSettled(c, r)
    \/ \E c \in {d \in Running : d.kind = "download"} :
           \E r \in DownloadOutcomes(c) : \E now \in AppTimes : DownloadSettled(c, r, now)

Spec == Init /\ [][Next]_vars

----------------------------------------------------------------------------
(* The GitHub form alone, with many URLs and many texts for the number field *)

FormUrls ==
    {u \in RepoUrls :
        /\ u.scheme = "https://"
        /\ u.host \in {"github.com", "gitlab.com"}
        /\ u.segs \in {<<>>, <<"o">>, <<"o", "">>, <<"", "r2">>, <<"o", "r2">>}
        /\ u.query \in {"", "?q=1"}}

FormUrlTexts == {UrlText(u) : u \in FormUrls} \cup {"  "}

NumChars == {"0", "1", "5", "-", ".", " "}

MaxNumLen == 2

RECURSIVE TextsOver(_, _)
TextsOver(chars, n) ==
    IF n = 0 THEN {""}
    ELSE LET shorter == TextsOver(chars, n - 1)
         IN  shorter \cup {t \o ch : t \in shorter, ch \in chars}

NumberTexts == TextsOver(NumChars, MaxNumLen)

FormOutcomes ==
    {Response(TRUE, 200, "OK", JsonBody(StrVal("# A"), Null), Null),
     Response(FALSE, 404, "Not Found", JsonBody(Null, StrVal("Repository not found")), Null)}

InitForm ==
    /\ AppInit("github")
    /\ fn = Null
    /\ pipe = Null

NextForm ==
    \/ \E text \in FormUrlTexts : UrlChange(text)
    \/ \E text \in NumberTexts : MaxFilesChange(text)
    \/ GitHubSubmit
    \/ \E c \in Running : GitHubAnalyze(c)
    \/ \E c \in Running : GitHubSend(c)
    \/ \E c \in Running : GitHubFinish(c)
    \/ \E c \in Running : \E r \in FormOutcomes : GitHubSettled(c, r)

SpecForm == InitForm /\ [][NextForm]_vars

\* the URLs that miss github.com, the owner segment or the repo segment
MalformedTexts == {UrlText(u) : u \in {v \in FormUrls : ~WellFormed(v)}}

\* C2: submitting the GitHub form with a malformed URL (one missing github.com,
\* or missing the owner or the repo segment) is rejected and no request to
\* /docs/from-github is made for it.
C2_MalformedNeverRequested ==
    \A c \in Running :
        (c.kind = "github" /\ c.request # Null) =>
            c.request.body.github_url \notin MalformedTexts

\* the malformed URLs the code does reject: those the pattern
\* github.com/<no slash>+/<no slash>+ does not match anywhere
C2_UnmatchedNeverRequested ==
    \A c \in Running :
        (c.kind = "github" /\ c.request # Null) =>
            RepoMatch(c.request.body.github_url) # Null

InRange(n) == n \in MinMaxFiles..MaxMaxFiles

\* the texts whose parsed value is not a number or is outside 1..50
InvalidNumberTexts ==
    {text \in NumberTexts : ParseInt(text) = NaN \/ ~InRange(ParseInt(text).v)}

\* C6: after any sequence of edits maxFiles is an integer in 1..50; an edit
\* whose parsed value is not a number or is outside 1..50 leaves maxFiles
\* unchanged (in every state the form reaches, handleMaxFilesChange maps such
\* a text to the maxFiles it had); every /docs/from-github request carries
\* max_files in 1..50.
C6_MaxFilesInRange ==
    /\ InRange(gitHubInput.maxFiles)
    /\ \A text \in InvalidNumberTexts :
          MaxFilesAfter(gitHubInput.maxFiles, text) = gitHubInput.maxFiles
    /\ \A c \in Running :
          (c.kind = "github" /\ c.request # Null) => InRange(c.request.body.max_files)

\* an edited maxFiles is on its way to the server
C6_Witness ==
    \E c \in Running :
        /\ c.kind = "github"
        /\ c.stage = "pending"
        /\ c.request.body.max_files = 50

----------------------------------------------------------------------------
(* Properties of the application *)

\* the calls of the bag B that wait for the response to a request
InFlight(B) ==
    Cardinality({ck \in BagToSet(B) \X (1..(MaxCalls + 1)) :
                    ck[1].stage = "pending" /\ ck[2] <= B[ck[1]]})

IsFailure(r) == r # Null /\ (r.t = "failure" \/ ~r.ok)

\* C5: whenever a download request is sent, its markdown_content is exactly the
\* documentation displayed at that moment, and the file then offered to the
\* user has the response body, which is that markdown, as its content.
C5_DownloadRoundTrip ==
    [][/\ \A c \in BagToSet(calls') \ Running :
             c.kind = "download" => c.request.body.markdown_content = documentation
       /\ saved' # Null =>
             /\ saved'.content = received'.body.content
             /\ \A c \in Running \ BagToSet(calls') :
                   c.kind = "download" => saved'.content = c.request.body.markdown_content
      ]_vars

\* a download of markdown that ends in a line break has offered its file
C5_Witness ==
    /\ saved # Null
    /\ saved.content = "# A\n"
    /\ documentation = "# A\n"

\* C7: after a non-OK response the error banner shows exactly the body's detail
\* when the body is JSON with a non-empty detail, and otherwise the text
\* "Server error: <status> <statusText>".
C7_BannerShowsDetailOrStatus ==
    (received # Null /\ received.t = "response" /\ ~received.ok) =>
        error = IF /\ received.body.t = "json"
                   /\ received.body.detail # Null
                   /\ received.body.detail.v # ""
                THEN received.body.detail.v
                ELSE "Server error: " \o ToString(received.status) \o " "
                        \o received.statusText

\* a response with a JSON detail was just reported
C7_Witness ==
    /\ received # Null
    /\ received.t = "response"
    /\ ~received.ok
    /\ received.body.t = "json"
    /\ received.body.detail = StrVal("Repository not found")
    /\ error = "Repository not found"

\* C8: no retry: a handler invocation that has sent its request has sent
\* exactly one, and the step that handles a failed request ends that
\* invocation without sending another request.
C8_NoRetry ==
    /\ [](\A c \in Running :
            c.requests = IF c.stage \in {"exploring", "analyzing"} THEN 0 ELSE 1)
    /\ [][IsFailure(received') => InFlight(calls') = InFlight(calls) - 1]_vars

\* a request has just failed and nothing is in flight after it
C8_Witness ==
    /\ IsFailure(received)
    /\ calls = EmptyBag
    /\ error # ""

\* C9: each api function sends a POST to its documented endpoint with the
\* documented fields, and an OK response to a generate request makes its
\* markdown the displayed documentation.
C9_DocumentedRequests ==
    /\ \A c \in Running : c.request # Null =>
          /\ c.request.method = "POST"
          /\ CASE c.kind = "code" ->
                    /\ c.request.url = API_BASE_URL \o "/docs/gen"
                    /\ c.request.body = [code |-> c.arg.v, isBase64 |-> FALSE]
               [] c.kind = "file" ->
                    /\ c.request.url = API_BASE_URL \o "/docs/from-upload"
                    /\ c.request.contentType = "multipart/form-data"
                    /\ c.request.body = [file |-> c.arg]
               [] c.kind = "github" ->
                    /\ c.request.url = API_BASE_URL \o "/docs/from-github"
                    /\ c.request.body = [github_url |-> c.arg.githubUrl,
                                         max_files  |-> c.arg.maxFiles]
               [] c.kind = "download" ->
                    /\ c.request.url = API_BASE_URL \o "/docs/download"
                    /\ DOMAIN c.request.body =
                           {"markdown_content", "filename_prefix", "source_type"}
                    /\ c.request.body.markdown_content = c.arg.v
    /\ (received # Null /\ received.t = "response" /\ received.ok
            /\ received.body.t = "json") =>
          documentation = received.body.markdown.v

\* a generate request was just answered OK while a repository request is in flight
C9_Witness ==
    /\ received # Null
    /\ received.t = "response"
    /\ received.ok
    /\ received.body.t = "json"
    /\ documentation = "# A\n"
    /\ \E c \in Running : c.kind = "github" /\ c.stage = "pending"

----------------------------------------------------------------------------
(* The backend's repository pipeline, as the specification describes it:
   Locator -> Tree Fetcher -> File Filter -> Prioritizer -> Content Fetcher
   -> Prompt Assembler -> Doc Generator *)

MaxTree == 3

MaxPipeFiles == 3

MinScore == 1

MaxScore == 5

Paths == {"README.md", "main.py", "src/util.py", "node_modules/x.js", "dist/app.min.js"}

\* the listings of a repository: its paths, each once
Trees ==
    {t \in UNION {[1..n -> Paths] : n \in 0..MaxTree} :
        \A i, j \in 1..Len(t) : i # j => t[i] # t[j]}

Contains(s, lit) == \E i \in 1..Len(s) : OccursAt(s, lit, i)

EndsWith(s, lit) == OccursAt(s, lit, Len(s) - Len(lit) + 1)

\* the deny-list: dependency directories, build output, lock files, images,
\* minified bundles
Excluded(path) ==
    \/ Contains("/" \o path, "/node_modules/")
    \/ Contains("/" \o path, "/dist/")
    \/ Contains("/" \o path, "/build/")
    \/ EndsWith(path, ".lock")
    \/ EndsWith(path, ".png")
    \/ EndsWith(path, ".min.js")

\* a filter that collects the surviving files by prepending them
RECURSIVE FileFilterPrepending(_)
FileFilterPrepending(files) ==
    IF files = <<>> THEN <<>>
    ELSE IF Excluded(Head(files)) THEN FileFilterPrepending(Tail(files))
    ELSE FileFilterPrepending(Tail(files)) \o <<Head(files)>>

\* File Filter: the files that no deny-list pattern matches, in their order
RECURSIVE FileFilter(_)
FileFilter(files) ==
    IF files = <<>> THEN <<>>
    ELSE IF Excluded(Head(files)) THEN FileFilter(Tail(files))
    ELSE <<Head(files)>> \o FileFilter(Tail(files))

\* the fallback scorer: root-level files first
HeuristicScore(path) == IF Contains(path, "/") THEN 3 ELSE 5

\* an insertion that puts x before the files of its own score
RECURSIVE InsertBeforeEqual(_, _, _)
InsertBeforeEqual(x, sorted, score) ==
    IF sorted = <<>> THEN <<x>>
    ELSE IF score[Head(sorted)] > score[x]
         THEN <<Head(sorted)>> \o InsertBeforeEqual(x, Tail(sorted), score)
         ELSE <<x>> \o sorted

\* x goes after the files whose score is at least its own
RECURSIVE InsertByScore(_, _, _)
InsertByScore(x, sorted, score) ==
    IF sorted = <<>> THEN <<x>>
    ELSE IF score[Head(sorted)] >= score[x]
         THEN <<Head(sorted)>> \o InsertByScore(x, Tail(sorted), score)
         ELSE <<x>> \o sorted

\* descending score, ties in listing order
RECURSIVE StableSortByScore(_, _)
StableSortByScore(files, score) ==
    IF files = <<>> THEN <<>>
    ELSE InsertByScore(files[Len(files)],
                       StableSortByScore(SubSeq(files, 1, Len(files) - 1), score), score)

\* the first n files
TakeFirst(files, n) == SubSeq(files, 1, IF n < Len(files) THEN n ELSE Len(files))

\* the selection that takes one file too many
PrioritizeOneMore(files, score, maxFiles) ==
    TakeFirst(StableSortByScore(files, score), maxFiles + 1)

\* Prioritizer: the top max_files files by score
Prioritize(files, score, maxFiles) == TakeFirst(StableSortByScore(files, score), maxFiles)

PipeUrls == {u \in FormUrls : u.query = "" /\ u.segs \in {<<"o", "r2">>, <<"o">>}
                              /\ u.host = "github.com"}

NoScore == [p \in {} |-> 0]

InitPipeline ==
    /\ AppQuiet
    /\ fn = Null
    /\ pipe \in {[stage |-> "start", url |-> u, maxFiles |-> n, tree |-> <<>>,
                  filtered |-> <<>>, score |-> NoScore, selected |-> <<>>,
                  fetched |-> <<>>, markdown |-> "", error |-> ""] :
                 u \in PipeUrls, n \in 1..MaxPipeFiles}

\* Repository Locator
PipeLocate ==
    /\ pipe.stage = "start"
    /\ pipe' = IF WellFormed(pipe.url)
               THEN [pipe EXCEPT !.stage = "located"]
               ELSE [pipe EXCEPT !.stage = "failed", !.error = "InvalidRepositoryURL"]
    /\ UNCHANGED <<appVars, fn>>

\* Tree Fetcher: the listing, or a failure of the GitHub API
PipeFetchTree ==
    /\ pipe.stage = "located"
    /\ \/ \E t \in Trees : pipe' = [pipe EXCEPT !.stage = "listed", !.tree = t]
       \/ \E e \in {"RepositoryNotFound", "RateLimitExceeded", "UpstreamUnavailable"} :
             pipe' = [pipe EXCEPT !.stage = "failed", !.error = e]
    /\ UNCHANGED <<appVars, fn>>

\* File Filter
PipeFilter ==
    /\ pipe.stage = "listed"
    /\ pipe' = [pipe EXCEPT !.stage = "filtered", !.filtered = FileFilter(pipe.tree)]
    /\ UNCHANGED <<appVars, fn>>

Range(f) == {f[i] : i \in DOMAIN f}

\* Prioritizer, scoring: the model's scores, or the heuristic when the model fails
PipeScore ==
    /\ pipe.stage = "filtered"
    /\ \/ \E sc \in [Range(pipe.filtered) -> MinScore..MaxScore] :
             pipe' = [pipe EXCEPT !.stage = "scored", !.score = sc]
       \/ pipe' = [pipe EXCEPT !.stage = "scored",
                     !.score = [p \in Range(pipe.filtered) |-> HeuristicScore(p)]]
    /\ UNCHANGED <<appVars, fn>>

\* a selection from the whole listing instead of the filtered files
PipeSelectUnfiltered ==
    /\ pipe.stage = "scored"
    /\ pipe' = [pipe EXCEPT !.stage = "selected",
                  !.selected = TakeFirst(pipe.tree, pipe.maxFiles + 1)]
    /\ UNCHANGED <<appVars, fn>>

\* Prioritizer, selection
PipeSelect ==
    /\ pipe.stage = "scored"
    /\ pipe' = [pipe EXCEPT !.stage = "selected",
                  !.selected = Prioritize(pipe.filtered, pipe.score, pipe.maxFiles)]
    /\ UNCHANGED <<appVars, fn>>

\* the subsequence of files whose positions are in keep
RECURSIVE Keep(_, _)
Keep(files, keep) ==
    IF files = <<>> THEN <<>>
    ELSE Keep(SubSeq(files, 1, Len(files) - 1), keep) \o
         (IF Len(files) \in keep THEN <<files[Len(files)]>> ELSE <<>>)

\* Content Fetcher: a failed fetch is left out; the request fails only when
\* every fetch failed
PipeFetchContent ==
    /\ pipe.stage = "selected"
    /\ \E keep \in SUBSET (1..Len(pipe.selected)) :
          pipe' = IF keep = {} /\ pipe.selected # <<>>
                  THEN [pipe EXCEPT !.stage = "failed", !.error = "UpstreamUnavailable"]
                  ELSE [pipe EXCEPT !.stage = "fetched",
                                    !.fetched = Keep(pipe.selected, keep)]
    /\ UNCHANGED <<appVars, fn>>

\* a generator that reports a repository without documentable files as an error
PipeGenerateFailingOnEmpty ==
    /\ pipe.stage = "fetched"
    /\ \/ /\ pipe.fetched # <<>>
          /\ pipe' = [pipe EXCEPT !.stage = "done", !.markdown = "# Repository Documentation"]
       \/ \E e \in {"UpstreamUnavailable", "QuotaExceeded"} :
             pipe' = [pipe EXCEPT !.stage = "failed", !.error = e]
    /\ UNCHANGED <<appVars, fn>>

\* Prompt Assembler and Doc Generator: the Markdown, or a failure of the model;
\* with no file to document the Markdown says so
PipeGenerate ==
    /\ pipe.stage = "fetched"
    /\ \/ pipe' = [pipe EXCEPT !.stage = "done",
                     !.markdown = IF pipe.fetched = <<>>
                                  THEN "No documentable files were found."
                                  ELSE "# Repository Documentation"]
       \/ /\ pipe.fetched # <<>>
          /\ \E e \in {"UpstreamUnavailable", "QuotaExceeded"} :
                pipe' = [pipe EXCEPT !.stage = "failed", !.error = e]
    /\ UNCHANGED <<appVars, fn>>

NextPipeline ==
    \/ PipeLocate
    \/ PipeFetchTree
    \/ PipeFilter
    \/ PipeScore
    \/ PipeSelect
    \/ PipeFetchContent
    \/ PipeGenerate

SpecPipeline == InitPipeline /\ [][NextPipeline]_vars

Min(a, b) == IF a < b THEN a ELSE b

\* C10: given max_files = N, the Prioritizer outputs exactly
\* min(N, number of eligible files) files.
C10_SelectionLength ==
    pipe.stage \in {"selected", "fetched", "done"} =>
        Len(pipe.selected) = Min(pipe.maxFiles, Len(pipe.filtered))

\* the Prioritizer had more eligible files than max_files, and a listing with
\* fewer
C10_Witness ==
    /\ pipe.stage = "selected"
    /\ Len(pipe.filtered) = 3
    /\ pipe.maxFiles = 2
    /\ Len(pipe.selected) = 2

\* the place of the file x in the listing files
Pos(files, x) == CHOOSE i \in 1..Len(files) : files[i] = x

\* x ranks before y: a higher score, or the same score and an earlier place
RanksBefore(x, y) ==
    \/ pipe.score[x] > pipe.score[y]
    \/ pipe.score[x] = pipe.score[y] /\ Pos(pipe.filtered, x) < Pos(pipe.filtered, y)

\* C11: the selection is the stable top-N by descending score: the selected
\* files are in descending score, files of equal score keep the relative
\* order of the input listing, and every file left out ranks after every
\* file selected (so scores and input order determine the selection).
C11_StableTopN ==
    pipe.stage \in {"selected", "fetched", "done"} =>
        /\ \A i \in 1..Len(pipe.selected) : pipe.selected[i] \in Range(pipe.filtered)
        /\ \A i, j \in 1..Len(pipe.selected) :
              i < j => RanksBefore(pipe.selected[i], pipe.selected[j])
        /\ \A x \in Range(pipe.selected) :
              \A y \in Range(pipe.filtered) \ Range(pipe.selected) : RanksBefore(x, y)

\* three files of one score, two of them selected: the first two of the listing
C11_Witness ==
    /\ pipe.stage = "selected"
    /\ Len(pipe.filtered) = 3
    /\ pipe.maxFiles = 2
    /\ \A x \in Range(pipe.filtered) : pipe.score[x] = 3
    /\ pipe.selected = SubSeq(pipe.filtered, 1, 2)

\* C12: the File Filter is idempotent and keeps the surviving files in their
\* original order: the filtered listing is the listing without its excluded
\* files, each surviving pair in the order it had, and filtering it again
\* gives the same sequence.
C12_FilterIdempotent ==
    pipe.stage \in {"filtered", "scored", "selected", "fetched", "done"} =>
        /\ FileFilter(pipe.filtered) = pipe.filtered
        /\ Range(pipe.filtered) = {x \in Range(pipe.tree) : ~Excluded(x)}
        /\ \A i, j \in 1..Len(pipe.filtered) :
              i < j => Pos(pipe.tree, pipe.filtered[i]) < Pos(pipe.tree, pipe.filtered[j])

\* a listing with an excluded file between two surviving ones was filtered
C12_Witness ==
    /\ pipe.stage = "filtered"
    /\ pipe.tree = <<"src/util.py", "node_modules/x.js", "README.md">>
    /\ pipe.filtered = <<"src/util.py", "README.md">>

\* C13: no file the File Filter excludes is fetched by the Content Fetcher,
\* and the number of fetched files never exceeds max_files.
C13_FetchedAreEligible ==
    /\ \A x \in Range(pipe.fetched) : x \in Range(pipe.tree) /\ ~Excluded(x)
    /\ Len(pipe.fetched) <= pipe.maxFiles

\* a listing with excluded files and more eligible files than max_files was fetched
C13_Witness ==
    /\ pipe.stage = "fetched"
    /\ \E x \in Range(pipe.tree) : Excluded(x)
    /\ Len(pipe.filtered) > pipe.maxFiles
    /\ Len(pipe.fetched) = pipe.maxFiles

\* the pipeline goes on as long as it has a stage to run
FairPipeline == SpecPipeline /\ WF_vars(NextPipeline)

NoDocumentableFiles ==
    pipe.stage \in {"filtered", "scored", "selected", "fetched", "done"} /\ pipe.filtered = <<>>

----------------------------------------------------------------------------
(* Properties of the application under interleavings of submissions, tab
   changes and responses *)

\* this step is the generation call c receiving its response
Settles(c) ==
    /\ received' # Null
    /\ c.kind # "download"
    /\ c.stage = "pending"
    /\ isDownloading' = isDownloading
    /\ \/ c.kind \in {"code", "file"} /\ GenerateSettled(c, received')
       \/ c.kind = "github" /\ GitHubSettled(c, received')

\* the source type and the prefix that belong to the input of the call c
SourceOf(c) ==
    CASE c.kind = "code"   -> [sourceType |-> "code", filenamePrefix |-> "code_documentation"]
      [] c.kind = "file"   -> [sourceType |-> "file",
                               filenamePrefix |-> "file_docs_" \o StripExtension(c.arg.name)]
      [] c.kind = "github" -> [sourceType |-> "github",
                               filenamePrefix |-> GitHubFilenamePrefix(c.arg.githubUrl)]

\* C15: the source_type and filename prefix that Download sends are those of
\* the input that produced the documentation displayed: when the response to
\* a call puts its Markdown on display, a download from then on is sent with
\* the source of that call.
C15_DownloadMatchesSource ==
    [][\A c \in Running :
          (Settles(c) /\ Thrown(received') = Null /\ Trim(documentation') # "")
              => DownloadSource' = SourceOf(c)]_vars

\* the generation calls accepted and not yet settled
Generating ==
    Cardinality({ck \in Running \X (1..(MaxCalls + 1)) :
                    /\ ck[1].kind # "download"
                    /\ ck[1].stage \in {"exploring", "analyzing", "pending"}
                    /\ ck[2] <= calls[ck[1]]})

\* this step is a tab change: no response arrives, and the tab differs or the
\* output is cleared
TabChanged ==
    /\ received' = Null
    /\ activeTab' # activeTab \/ (documentation # "" /\ documentation' = "")

\* C17 as stated: a tab change clears error, documentation, currentCode and
\* currentGitHubData, sets activeTab, and changes nothing else.
C17_TabChangeChangesNothingElse ==
    [][TabChanged =>
          /\ error' = "" /\ documentation' = ""
          /\ currentCode' = Null /\ currentGitHubData' = Null
          /\ UNCHANGED <<codeInput, fileUpload, gitHubInput, isDownloading, calls>>]_vars

\* C17 amended: a tab change clears error, documentation, currentCode and
\* currentGitHubData, sets activeTab and changes nothing else of App; it
\* neither sends nor cancels a request and leaves the download button's state;
\* the input component is untouched when the tab is the active one, and is
\* otherwise replaced by the chosen tab's component in its initial state.
C17_TabChangeFrame ==
    [][TabChanged =>
          /\ error' = "" /\ documentation' = ""
          /\ currentCode' = Null /\ currentGitHubData' = Null
          /\ UNCHANGED isDownloading
          /\ BagCardinality(calls') = BagCardinality(calls)
          /\ {[kind |-> c.kind, stage |-> c.stage, request |-> c.request] :
                 c \in BagToSet(calls')}
               = {[kind |-> c.kind, stage |-> c.stage, request |-> c.request] : c \in Running}
          /\ activeTab' = activeTab => UNCHANGED <<codeInput, fileUpload, gitHubInput, calls>>
          /\ activeTab' # activeTab =>
                /\ codeInput' = InitialCodeInput
                /\ fileUpload' = InitialFileUpload
                /\ gitHubInput' = InitialGitHubInput]_vars

\* the tab was changed while a request was running and text was typed
C17_Witness ==
    /\ activeTab = "file"
    /\ documentation = ""
    /\ currentCode = Null
    /\ codeInput = InitialCodeInput
    /\ \E c \in Running : c.kind = "code" /\ ~c.mounted /\ c.stage = "pending"

\* C18: a response to a request started before a tab change never repopulates
\* the documentation, currentCode or currentGitHubData that the tab change
\* cleared (a call whose component the tab change unmounted was started
\* before it).
C18_StaleResponseIgnored ==
    [][\A c \in Running :
          (~c.mounted /\ Settles(c))
              => UNCHANGED <<documentation, currentCode, currentGitHubData>>]_vars

\* C19: at most one documentation-generation request is under way: from the
\* moment a submit is accepted until its request settles no second one starts.
C19_OneGenerationAtATime == Generating <= 1

\* C20: a failed generation request leaves the documentation, currentCode and
\* currentGitHubData as they were; the submit and the sending of the request
\* leave them too; of App's state only the error banner changes.
C20_FailureKeepsOutput ==
    [][/\ (received' # Null /\ IsFailure(received'))
            => /\ UNCHANGED <<documentation, currentCode, currentGitHubData, activeTab>>
               /\ error' # ""
       /\ (BagCardinality(calls') > BagCardinality(calls) \/ InFlight(calls') > InFlight(calls))
            => UNCHANGED <<documentation, currentCode, currentGitHubData, activeTab>>]_vars

\* a GitHub request failed while documentation of an earlier one was on display
C20_Witness ==
    /\ IsFailure(received)
    /\ isDownloading = FALSE
    /\ documentation = "# A\n"
    /\ currentGitHubData # Null
    /\ error # ""
    /\ activeTab = "github"
    /\ calls = EmptyBag

----------------------------------------------------------------------------
(* handleDownload's choice of source type and prefix, on every stored state:
   the stored GitHub data and the stored code or file are drawn by their
   parts, with documentation on display *)

\* the repository URLs the form accepts and handleGitHubSubmit stores
SourceUrls == {u \in FormUrls : Validate(UrlText(u)) = "accepted"}

\* a file name by its parts: the stem and the last extension
SourceFiles ==
    [stem : {"main", "a.tar", "my file"}, ext : {".py", ".gz"}]
        \cup [stem : {"Makefile"}, ext : {""}]

SourceGitHub == {Null} \cup [t : {"url"}, url : SourceUrls, maxFiles : {MinMaxFiles, MaxMaxFiles}]

SourceCode ==
    {Null} \cup [t : {"code"}, text : Codes] \cup [t : {"file"}, file : SourceFiles]

\* currentGitHubData for the parts g
StoredGitHubData(g) ==
    IF g = Null THEN Null
    ELSE [t |-> "object", githubUrl |-> UrlText(g.url), maxFiles |-> g.maxFiles]

\* currentCode for the parts k
StoredCode(k) ==
    IF k = Null THEN Null
    ELSE IF k.t = "code" THEN StrVal(k.text)
    ELSE FileVal(k.file.stem \o k.file.ext)

InitSource ==
    /\ pipe = Null
    /\ activeTab = "code"
    /\ error = ""
    /\ codeInput = InitialCodeInput
    /\ fileUpload = InitialFileUpload
    /\ gitHubInput = InitialGitHubInput
    /\ isDownloading = FALSE
    /\ calls = EmptyBag
    /\ saved = Null
    /\ alerted = ""
    /\ received = Null
    /\ documentation \in Markdowns
    /\ fn \in {[op |-> "source", in |-> [github |-> g, code |-> k], out |-> Null] :
                 g \in SourceGitHub, k \in SourceCode}
    /\ currentGitHubData = StoredGitHubData(fn.in.github)
    /\ currentCode = StoredCode(fn.in.code)

NextSource ==
    \/ DownloadClick
    \/ \E c \in {d \in Running : d.kind = "download"} :
           \E r \in DownloadOutcomes(c) : \E now \in AppTimes : DownloadSettled(c, r, now)

SpecSource == InitSource /\ [][NextSource]_vars

\* the source type and prefix of the stored parts g and k by the precedence
\* GitHub data, File, code, nothing; ownerRepo is <owner>_<repo> of the URL
Precedence(g, k, ownerRepo) ==
    IF g # Null
    THEN [sourceType |-> "github", filenamePrefix |-> "github_docs_" \o ownerRepo]
    ELSE IF k # Null /\ k.t = "file"
    THEN [sourceType |-> "file", filenamePrefix |-> "file_docs_" \o k.file.stem]
    ELSE IF k # Null
    THEN [sourceType |-> "code", filenamePrefix |-> "code_documentation"]
    ELSE [sourceType |-> "code", filenamePrefix |-> "documentation"]

\* what a download request says of its source
SentSource(c) ==
    [sourceType |-> c.request.body.source_type,
     filenamePrefix |-> c.request.body.filename_prefix]

\* C16: handleDownload chooses source type and prefix by fixed precedence:
\* stored GitHub data gives 'github' and github_docs_<owner>_<repo>, otherwise
\* a stored File gives 'file' and file_docs_<name without its last
\* extension>, otherwise stored code gives 'code' and code_documentation,
\* otherwise 'code' and documentation.
C16_SourceByPrecedence ==
    \A c \in Running :
        (c.kind = "download" /\ (fn.in.github # Null => WellFormed(fn.in.github.url)))
            => SentSource(c) =
                 Precedence(fn.in.github, fn.in.code,
                            IF fn.in.github = Null THEN ""
                            ELSE fn.in.github.url.segs[1] \o "_" \o fn.in.github.url.segs[2])

\* the same precedence with <owner> and <repo> as the two groups of the pattern
C16_PrecedenceOfMatch ==
    \A c \in Running :
        c.kind = "download"
            => SentSource(c) =
                 Precedence(fn.in.github, fn.in.code,
                            IF fn.in.github = Null THEN ""
                            ELSE LET m == RepoMatch(UrlText(fn.in.github.url))
                                 IN  m.owner \o "_" \o m.repo)

----------------------------------------------------------------------------
(* The error banner and the busy flags under interleavings *)

\* C21: the error banner is non-empty only if the most recently completed
\* operation failed: when an operation completes successfully no error of
\* another operation is shown next to its result.
C21_NoErrorAfterSuccess ==
    (received # Null /\ ~IsFailure(received)) => error = ""

\* the busy flag shown for the kind of operation of the call c
BusyFlag(c) ==
    CASE c.kind = "code"     -> codeInput.isProcessing
      [] c.kind = "file"     -> fileUpload.isProcessing
      [] c.kind = "github"   -> gitHubInput.isLoading
      [] c.kind = "download" -> isDownloading

\* C22, its safety half: the busy flag of an accepted submit or download is
\* true for the whole time its request is pending.
C22_BusyWhilePending ==
    \A c \in Running : c.stage \in {"exploring", "analyzing", "pending"} => BusyFlag(c)

\* the same for the calls whose component is still mounted, up to the finally
\* block of the handler
C22_BusyWhileMounted ==
    \A c \in Running : c.mounted => BusyFlag(c)

----------------------------------------------------------------------------
(* The earlier downloadDocumentation, over XMLHttpRequest: one call, the event
   the request ends with, and the FileReader that reads an error body.  With
   responseType 'blob' the response of a loaded request is a Blob, so
   readAsText does not throw. *)

\* a call of resolve or reject: the first one settles the promise
Settle(x, outcome, reason) ==
    [x EXCEPT !.settles = x.settles + 1,
              !.promise = IF x.promise = "pending" THEN outcome ELSE x.promise,
              !.reason  = IF x.promise = "pending" THEN reason ELSE x.reason]

\* `Server error: ${xhr.status}`
StatusMessage(status) == "Server error: " \o ToString(status)

\* reader.onload: JSON.parse(reader.result), then errorData.detail || `Server
\* error: ...`; text that is not JSON and the JSON null end in the catch block
ParsedMessage(body, status) ==
    IF body.t = "json" /\ body.detail # Null /\ body.detail.v # ""
    THEN body.detail.v
    ELSE StatusMessage(status)

InitXhr ==
    /\ AppQuiet
    /\ pipe = Null
    /\ fn \in {[op |-> "xhr", in |-> [code |-> code, isBase64 |-> b], stage |-> "created",
                request |-> Null, event |-> "", status |-> 0, body |-> Null,
                read |-> "", promise |-> "pending", reason |-> "", settles |-> 0,
                saved |-> Null] :
               code \in {FileVal("main.py"), StrVal("x = 1"), StrVal("eCA9IDE=")},
               b \in BOOLEAN}

\* downloadDocumentation(code, isBase64) up to xhr.send(formData): the form
\* data holds 'file' for a File, 'code' and 'isBase64' (as text) otherwise
downloadDocumentation ==
    /\ fn.stage = "created"
    /\ fn' = [fn EXCEPT !.stage = "sent",
                        !.request = [method |-> "POST",
                                     url |-> "http://localhost:8000" \o "/docs/download",
                                     body |->
                                        IF fn.in.code.t = "File"
                                        THEN [file |-> fn.in.code]
                                        ELSE [code |-> fn.in.code.v,
                                              isBase64 |-> IF fn.in.isBase64
                                                           THEN "true" ELSE "false"]]]
    /\ UNCHANGED <<appVars, pipe>>

\* an onload that takes every 2xx status for a success
XhrOnLoadAnySuccess(status, body, now) ==
    /\ fn.stage = "sent"
    /\ fn' = IF status >= 200 /\ status < 300
             THEN Settle([fn EXCEPT !.stage = "done", !.event = "load",
                                    !.status = status, !.body = body,
                                    !.saved = [t |-> "file",
                                               name |-> DefaultFilename("code_documentation", now),
                                               content |-> body]],
                         "resolved", "")
             ELSE [fn EXCEPT !.stage = "reading", !.event = "load",
                             !.status = status, !.body = body]
    /\ UNCHANGED <<appVars, pipe>>

\* xhr.onload: status 200 saves the blob and resolves; any other status starts
\* a FileReader on the response
XhrOnLoad(status, body, now) ==
    /\ fn.stage = "sent"
    /\ fn' = IF status = 200
             THEN Settle([fn EXCEPT !.stage = "done", !.event = "load",
                                    !.status = status, !.body = body,
                                    !.saved = [t |-> "file",
                                               name |-> DefaultFilename("code_documentation", now),
                                               content |-> body]],
                         "resolved", "")
             ELSE [fn EXCEPT !.stage = "reading", !.event = "load",
                             !.status = status, !.body = body]
    /\ UNCHANGED <<appVars, pipe>>

\* reader.onload
ReaderOnLoad ==
    /\ fn.stage = "reading"
    /\ fn' = Settle([fn EXCEPT !.stage = "done", !.read = "loaded"],
                    "rejected", ParsedMessage(fn.body, fn.status))
    /\ UNCHANGED <<appVars, pipe>>

\* reader.onerror
ReaderOnError ==
    /\ fn.stage = "reading"
    /\ fn' = Settle([fn EXCEPT !.stage = "done", !.read = "failed"],
                    "rejected", StatusMessage(fn.status))
    /\ UNCHANGED <<appVars, pipe>>

\* xhr.onerror
XhrOnError ==
    /\ fn.stage = "sent"
    /\ fn' = Settle([fn EXCEPT !.stage = "done", !.event = "error"],
                    "rejected", "Network error - Could not connect to the server")
    /\ UNCHANGED <<appVars, pipe>>

NextXhr ==
    \/ downloadDocumentation
    \/ \E now \in AppTimes :
          \/ \E m \in Markdowns : XhrOnLoad(200, BlobBody(m), now)
          \/ \E status \in {201, 400, 404, 422, 500} :
             \E body \in {TextBody, [t |-> "jsonnull"], JsonBody(Null, Null),
                           JsonBody(Null, StrVal("")),
                           JsonBody(Null, StrVal("No code provided"))} :
                XhrOnLoad(status, body, now)
    \/ ReaderOnLoad
    \/ ReaderOnError
    \/ XhrOnError

\* the request ends with an event, and a FileReader with one too
FairXhr == InitXhr /\ [][NextXhr]_vars /\ WF_vars(NextXhr)

\* C23: the promise settles exactly once for every outcome: it resolves if
\* and only if the status is 200, after the file was offered; it rejects with
\* the server's detail or `Server error: <status>` for any other status and
\* with the network message on a transport error; the request carries `file`
\* for a File and `code` and `isBase64` otherwise.
C23_SettlesOnce ==
    /\ [](/\ fn.settles = (IF fn.stage = "done" THEN 1 ELSE 0)
          /\ (fn.promise # "pending") <=> (fn.stage = "done")
          /\ (fn.promise = "resolved") <=>
                (fn.stage = "done" /\ fn.event = "load" /\ fn.status = 200)
          /\ fn.promise = "resolved" =>
                /\ fn.saved # Null
                /\ fn.saved.content = fn.body
          /\ fn.saved # Null => fn.status = 200
          /\ fn.promise = "rejected" =>
                fn.reason =
                    IF fn.event = "error"
                    THEN "Network error - Could not connect to the server"
                    ELSE IF /\ fn.read = "loaded"
                            /\ fn.body.t = "json"
                            /\ fn.body.detail # Null
                            /\ fn.body.detail.v # ""
                    THEN fn.body.detail.v
                    ELSE "Server error: " \o ToString(fn.status)
          /\ fn.request # Null =>
                /\ fn.request.method = "POST"
                /\ fn.request.body =
                      IF fn.in.code.t = "File"
                      THEN [file |-> fn.in.code]
                      ELSE [code |-> fn.in.code.v,
                            isBase64 |-> IF fn.in.isBase64 THEN "true" ELSE "false"])
    /\ <>(fn.promise # "pending")

\* a response that is not 200 carried a detail, and the promise rejected with it
C23_Witness ==
    /\ fn.stage = "done"
    /\ fn.status = 404
    /\ fn.promise = "rejected"
    /\ fn.reason = "No code provided"
    /\ fn.settles = 1
    /\ fn.request.body = [code |-> "x = 1", isBase64 |-> "false"]

====
